---- MODULE Spec2Model ----
(***************************************************************************)
(* Model of the mirage service layer: FirecrawlService (structured brand   *)
(* extraction from a scrape API payload) and VisionService (brand          *)
(* extraction from the text completion of a vision model).                 *)
(*                                                                         *)
(* Python values are tagged records (field k names the Python type), so a  *)
(* payload can carry a value of any type in any place.  A dict keeps its   *)
(* items as a sequence of <<key, value>> pairs: Python dicts iterate in    *)
(* insertion order.                                                        *)
(***************************************************************************)
EXTENDS Integers, Sequences, FiniteSets, TLC

VARIABLES env, strict, services, calls

vars == <<env, strict, services, calls>>

(***************************************************************************)
(* Python values                                                           *)
(***************************************************************************)
PyNone == [k |-> "None"]
PyStr(s) == [k |-> "str", s |-> s]
PyInt(n) == [k |-> "int", n |-> n]
PyBool(b) == [k |-> "bool", b |-> b]
PyList(l) == [k |-> "list", l |-> l]
PyDict(items) == [k |-> "dict", items |-> items]

EmptyDict == PyDict(<<>>)

IsNone(v) == v.k = "None"
IsStr(v) == v.k = "str"
IsInt(v) == v.k = "int"
IsList(v) == v.k = "list"
IsDict(v) == v.k = "dict"

\* bool(v): the truth value Python's `if v` and `a or b` use
Truthy(v) ==
    CASE v.k = "None" -> FALSE
      [] v.k = "str"  -> v.s /= ""
      [] v.k = "int"  -> v.n /= 0
      [] v.k = "bool" -> v.b
      [] v.k = "list" -> v.l /= <<>>
      [] v.k = "dict" -> v.items /= <<>>

\* key in d, for a dict d
HasKey(d, key) == \E i \in 1..Len(d.items) : d.items[i][1] = key

\* d[key], for a dict d that has the key
Lookup(d, key) ==
    d.items[CHOOSE i \in 1..Len(d.items) : d.items[i][1] = key][2]

\* d.get(key, default), for a dict d
Get(d, key, default) == IF HasKey(d, key) THEN Lookup(d, key) ELSE default

\* list(d.values()), for a dict d: the values in insertion order
Values(d) == [i \in 1..Len(d.items) |-> d.items[i][2]]

\* a or b
Or(a, b) == IF Truthy(a) THEN a ELSE b

(***************************************************************************)
(* str(n) for a natural number, digit by digit                             *)
(***************************************************************************)
Digit(d) == SubSeq("0123456789", d + 1, d + 1)

RECURSIVE IntToStr(_)
IntToStr(n) == IF n < 10 THEN Digit(n) ELSE IntToStr(n \div 10) \o Digit(n % 10)

\* format(v, ""): what an f-string writes for {v}
Format(v) ==
    CASE v.k = "None" -> "None"
      [] v.k = "str"  -> v.s
      [] v.k = "int"  -> IntToStr(v.n)
      [] v.k = "bool" -> IF v.b THEN "True" ELSE "False"
      [] v.k = "list" -> "[...]"
      [] v.k = "dict" -> "{...}"

(***************************************************************************)
(* Outcome of a call: a returned value or a raised exception               *)
(***************************************************************************)
Returned(v) == [status |-> "returned", exc |-> "", value |-> v]
Raised(e) == [status |-> "raised", exc |-> e, value |-> PyNone]
NoOutcome == [status |-> "none", exc |-> "", value |-> PyNone]

(***************************************************************************)
(* The canonical brand schema (mirage.schemas.brand).  Constructors keep   *)
(* whatever value they are given; the Valid... predicates state the field  *)
(* types of the data model.  Under a validating schema (strict) a          *)
(* constructor call with a value of the wrong type raises ValidationError. *)
(***************************************************************************)
BrandColors(primary, secondary, accent, background, text, palette) ==
    [k |-> "BrandColors", primary |-> primary, secondary |-> secondary,
     accent |-> accent, background |-> background, text |-> text,
     palette |-> palette]

BrandTypography(headings, body, weights, base_size) ==
    [k |-> "BrandTypography", headings |-> headings, body |-> body,
     weights |-> weights, base_size |-> base_size]

BrandSpacing(grid, gap) == [k |-> "BrandSpacing", grid |-> grid, gap |-> gap]

ButtonStyle(bg, text, border_radius, padding, border) ==
    [k |-> "ButtonStyle", bg |-> bg, text |-> text,
     border_radius |-> border_radius, padding |-> padding, border |-> border]

BrandButtons(primary, secondary) ==
    [k |-> "BrandButtons", primary |-> primary, secondary |-> secondary]

BrandData(url, colors, typography, spacing, buttons, logo_url, favicon_url, screenshots) ==
    [k |-> "BrandData", url |-> url, colors |-> colors,
     typography |-> typography, spacing |-> spacing, buttons |-> buttons,
     logo_url |-> logo_url, favicon_url |-> favicon_url,
     screenshots |-> screenshots]

\* the values a constructor gives the fields its caller leaves out
DefaultWeights == PyList(<<PyInt(400), PyInt(600), PyInt(700)>>)
DefaultBaseSize == PyNone
DefaultGrid == PyStr("8px")
DefaultPalette == PyList(<<>>)

IsOptStr(v) == IsStr(v) \/ IsNone(v)
IsListOfStr(v) == IsList(v) /\ \A i \in 1..Len(v.l) : IsStr(v.l[i])
IsListOfInt(v) == IsList(v) /\ \A i \in 1..Len(v.l) : IsInt(v.l[i])

ValidColors(c) ==
    /\ c.k = "BrandColors"
    /\ IsStr(c.primary)
    /\ IsOptStr(c.secondary) /\ IsOptStr(c.accent)
    /\ IsOptStr(c.background) /\ IsOptStr(c.text)
    /\ IsListOfStr(c.palette)

ValidTypography(t) ==
    /\ t.k = "BrandTypography"
    /\ IsStr(t.headings) /\ IsStr(t.body)
    /\ IsListOfInt(t.weights)
    /\ IsOptStr(t.base_size)

ValidSpacing(s) == s.k = "BrandSpacing" /\ IsStr(s.grid) /\ IsOptStr(s.gap)

ValidButtonStyle(b) ==
    /\ b.k = "ButtonStyle"
    /\ IsStr(b.bg) /\ IsStr(b.text)
    /\ IsStr(b.border_radius) /\ IsStr(b.padding)
    /\ IsOptStr(b.border)

ValidButtons(b) ==
    /\ b.k = "BrandButtons"
    /\ IsNone(b.primary) \/ ValidButtonStyle(b.primary)
    /\ IsNone(b.secondary) \/ ValidButtonStyle(b.secondary)

\* what the BrandData constructor itself checks: its own scalar fields
ValidBrandDataFields(url, logo_url, favicon_url, screenshots) ==
    /\ IsStr(url)
    /\ IsOptStr(logo_url) /\ IsOptStr(favicon_url)
    /\ IsListOfStr(screenshots)

\* a BrandData every field of which has the type of the data model
ValidBrandData(d) ==
    /\ d.k = "BrandData"
    /\ ValidBrandDataFields(d.url, d.logo_url, d.favicon_url, d.screenshots)
    /\ ValidColors(d.colors)
    /\ ValidTypography(d.typography)
    /\ ValidSpacing(d.spacing)
    /\ ValidButtons(d.buttons)

\* a constructor call: the object, or ValidationError under a validating schema
Construct(obj, valid, isStrict) ==
    IF isStrict /\ ~valid THEN Raised("ValidationError") ELSE Returned(obj)

(***************************************************************************)
(* FirecrawlService.extract_brand, after the response arrived: the mapping *)
(* of the payload `data` onto the schema.  x.get(...) on a value that is   *)
(* no dict raises AttributeError; the first statement that raises ends the *)
(* call.                                                                   *)
(***************************************************************************)

\* palette=list(colors_data.values()) if colors_data else []
FirecrawlPalette(colors_data) ==
    IF Truthy(colors_data) THEN PyList(Values(colors_data)) ELSE PyList(<<>>)

\* colors_data = branding.get("colors", {}); colors = BrandColors(...)
FirecrawlColors(branding, isStrict) ==
    LET colors_data == Get(branding, "colors", EmptyDict) IN
    IF ~IsDict(colors_data) THEN Raised("AttributeError")
    ELSE LET colors == BrandColors(
                 Get(colors_data, "primary", PyStr("#000000")),
                 Get(colors_data, "secondary", PyNone),
                 Get(colors_data, "accent", PyNone),
                 Get(colors_data, "background", PyNone),
                 Get(colors_data, "textPrimary", PyNone),
                 FirecrawlPalette(colors_data))
         IN Construct(colors, ValidColors(colors), isStrict)

\* typo_data = branding.get("typography", {}); typography = BrandTypography(...)
FirecrawlTypography(branding, isStrict) ==
    LET typo_data == Get(branding, "typography", EmptyDict) IN
    IF ~IsDict(typo_data) THEN Raised("AttributeError")
    ELSE
    LET font_families == Get(typo_data, "fontFamilies", EmptyDict)
        font_weights == Get(typo_data, "fontWeights", EmptyDict)
        font_sizes == Get(typo_data, "fontSizes", EmptyDict)
    IN
    IF \/ ~IsDict(font_families)
       \/ Truthy(font_weights) /\ ~IsDict(font_weights)
       \/ ~IsDict(font_sizes)
    THEN Raised("AttributeError")
    ELSE LET typography == BrandTypography(
                 Get(font_families, "heading",
                     Get(font_families, "primary", PyStr("sans-serif"))),
                 Get(font_families, "primary", PyStr("sans-serif")),
                 IF Truthy(font_weights) THEN PyList(Values(font_weights))
                                         ELSE DefaultWeights,
                 Get(font_sizes, "body", PyStr("16px")))
         IN Construct(typography, ValidTypography(typography), isStrict)

\* spacing_data = branding.get("spacing", {}); spacing = BrandSpacing(grid=...);
\* the assignment to spacing.gap is not validated
FirecrawlSpacing(branding) ==
    LET spacing_data == Get(branding, "spacing", EmptyDict) IN
    IF ~IsDict(spacing_data) THEN Raised("AttributeError")
    ELSE LET grid == PyStr(Format(Get(spacing_data, "baseUnit", PyInt(8))) \o "px")
             radius == Get(spacing_data, "borderRadius", PyNone)
         IN Returned(BrandSpacing(grid, IF Truthy(radius) THEN radius ELSE PyNone))

\* if components.get("buttonPrimary"): buttons.primary = ButtonStyle(...)
FirecrawlButtonPrimary(components, colors, isStrict) ==
    LET btn == Get(components, "buttonPrimary", PyNone) IN
    IF ~Truthy(btn) THEN Returned(PyNone)
    ELSE IF ~IsDict(btn) THEN Raised("AttributeError")
    ELSE LET style == ButtonStyle(
                 Get(btn, "background", colors.primary),
                 Get(btn, "textColor", PyStr("#ffffff")),
                 Get(btn, "borderRadius", PyStr("4px")),
                 PyStr("12px 24px"),
                 PyNone)
         IN Construct(style, ValidButtonStyle(style), isStrict)

\* if components.get("buttonSecondary"): buttons.secondary = ButtonStyle(...)
FirecrawlButtonSecondary(components, colors, isStrict) ==
    LET btn == Get(components, "buttonSecondary", PyNone) IN
    IF ~Truthy(btn) THEN Returned(PyNone)
    ELSE IF ~IsDict(btn) THEN Raised("AttributeError")
    ELSE LET style == ButtonStyle(
                 Get(btn, "background", PyStr("transparent")),
                 Get(btn, "textColor", colors.primary),
                 Get(btn, "borderRadius", PyStr("4px")),
                 PyStr("12px 24px"),
                 Get(btn, "borderColor", PyNone))
         IN Construct(style, ValidButtonStyle(style), isStrict)

\* components = branding.get("components", {}); buttons = BrandButtons(); ...
FirecrawlButtons(branding, colors, isStrict) ==
    LET components == Get(branding, "components", EmptyDict) IN
    IF ~IsDict(components) THEN Raised("AttributeError")
    ELSE LET primary == FirecrawlButtonPrimary(components, colors, isStrict) IN
         IF primary.status = "raised" THEN primary
         ELSE LET secondary == FirecrawlButtonSecondary(components, colors, isStrict) IN
              IF secondary.status = "raised" THEN secondary
              ELSE Returned(BrandButtons(primary.value, secondary.value))

\* logo_url=images.get("logo") or branding.get("logo")
FirecrawlLogoUrl(images, branding) ==
    Or(Get(images, "logo", PyNone), Get(branding, "logo", PyNone))

\* favicon_url=images.get("favicon")
FirecrawlFaviconUrl(images, branding) == Get(images, "favicon", PyNone)

\* the screenshots list: lines 89-92
FirecrawlScreenshots(include_screenshots, data) ==
    IF include_screenshots /\ HasKey(Get(data, "data", EmptyDict), "screenshot")
    THEN PyList(<<Lookup(Lookup(data, "data"), "screenshot")>>)
    ELSE PyList(<<>>)

\* lines 87-160: from data = response.json() to the return
extract_brand_mapping(url, include_screenshots, data, isStrict) ==
    IF ~IsDict(data) THEN Raised("AttributeError")
    ELSE IF ~IsDict(Get(data, "data", EmptyDict)) THEN Raised("AttributeError")
    ELSE
    LET branding == Get(Get(data, "data", EmptyDict), "branding", EmptyDict)
        screenshots == FirecrawlScreenshots(include_screenshots, data)
    IN
    IF ~IsDict(branding) THEN Raised("AttributeError")
    ELSE
    LET colors == FirecrawlColors(branding, isStrict) IN
    IF colors.status = "raised" THEN colors
    ELSE
    LET typography == FirecrawlTypography(branding, isStrict) IN
    IF typography.status = "raised" THEN typography
    ELSE
    LET spacing == FirecrawlSpacing(branding) IN
    IF spacing.status = "raised" THEN spacing
    ELSE
    LET buttons == FirecrawlButtons(branding, colors.value, isStrict) IN
    IF buttons.status = "raised" THEN buttons
    ELSE
    LET images == Get(branding, "images", EmptyDict) IN
    IF ~IsDict(images) THEN Raised("AttributeError")
    ELSE
    LET logo_url == FirecrawlLogoUrl(images, branding)
        favicon_url == FirecrawlFaviconUrl(images, branding)
    IN Construct(BrandData(PyStr(url), colors.value, typography.value,
                           spacing.value, buttons.value, logo_url,
                           favicon_url, screenshots),
                 ValidBrandDataFields(PyStr(url), logo_url, favicon_url,
                                      screenshots),
                 isStrict)

(***************************************************************************)
(* Text.  A text is a sequence of tokens: a character, or a JSON literal   *)
(* written without inner whitespace, which carries the value it denotes.   *)
(***************************************************************************)
Ch(c) == [ch |-> c, json |-> PyNone]
Json(v) == [ch |-> "json", json |-> v]

NL == Ch("\n")
SP == Ch(" ")
\* the backtick character
Tick == Ch("backtick")
Fence == <<Tick, Tick, Tick>>

IsSpace(t) == t \in {NL, SP}

SetMin(S) == CHOOSE m \in S : \A n \in S : m <= n
SetMax(S) == CHOOSE m \in S : \A n \in S : m >= n

\* s.strip()
Strip(s) ==
    LET inked == {i \in 1..Len(s) : ~IsSpace(s[i])} IN
    IF inked = {} THEN <<>> ELSE SubSeq(s, SetMin(inked), SetMax(inked))

\* s.startswith(prefix)
StartsWith(s, prefix) ==
    Len(s) >= Len(prefix) /\ SubSeq(s, 1, Len(prefix)) = prefix

\* s.split("\n")
RECURSIVE Split(_)
Split(s) ==
    LET breaks == {i \in 1..Len(s) : s[i] = NL} IN
    IF breaks = {} THEN <<s>>
    ELSE LET i == SetMin(breaks) IN
         <<SubSeq(s, 1, i - 1)>> \o Split(SubSeq(s, i + 1, Len(s)))

\* "\n".join(lines)
RECURSIVE Join(_)
Join(lines) ==
    IF lines = <<>> THEN <<>>
    ELSE IF Len(lines) = 1 THEN lines[1]
    ELSE lines[1] \o <<NL>> \o Join(Tail(lines))

\* json.loads(s): the value, or JSONDecodeError.  Whitespace around a value
\* and between the braces of {} or the brackets of [] is not significant.
json_loads(s) ==
    LET toks == SelectSeq(s, LAMBDA t : ~IsSpace(t)) IN
    IF Len(toks) = 1 /\ toks[1].ch = "json" THEN Returned(toks[1].json)
    ELSE IF toks = <<Ch("{"), Ch("}")>> THEN Returned(EmptyDict)
    ELSE IF toks = <<Ch("["), Ch("]")>> THEN Returned(PyList(<<>>))
    ELSE Raised("JSONDecodeError")

(***************************************************************************)
(* VisionService._parse_response and _default_brand_data                   *)
(***************************************************************************)

\* mutant: the closing fence is left in the text
StripFence_KeepsClosing(response_text) ==
    LET text == Strip(response_text) IN
    IF StartsWith(text, Fence) THEN Join(Tail(Split(text))) ELSE text

\* lines 132-142: strip, and remove a markdown code fence
StripFence(response_text) ==
    LET text == Strip(response_text) IN
    IF StartsWith(text, Fence)
    THEN LET lines == Tail(Split(text)) IN
         IF lines /= <<>> /\ Strip(lines[Len(lines)]) = Fence
         THEN Join(SubSeq(lines, 1, Len(lines) - 1))
         ELSE Join(lines)
    ELSE text

\* mutant: the two urls change places
default_brand_data_Swapped(source_url, screenshot_url) ==
    BrandData(PyStr(screenshot_url),
              BrandColors(PyStr("#000000"), PyNone, PyNone, PyNone, PyNone,
                          DefaultPalette),
              BrandTypography(PyStr("sans-serif"), PyStr("sans-serif"),
                              DefaultWeights, DefaultBaseSize),
              BrandSpacing(DefaultGrid, PyNone),
              BrandButtons(PyNone, PyNone),
              PyNone, PyNone,
              PyList(<<PyStr(source_url)>>))

default_brand_data(source_url, screenshot_url) ==
    BrandData(PyStr(source_url),
              BrandColors(PyStr("#000000"), PyNone, PyNone, PyNone, PyNone,
                          DefaultPalette),
              BrandTypography(PyStr("sans-serif"), PyStr("sans-serif"),
                              DefaultWeights, DefaultBaseSize),
              BrandSpacing(DefaultGrid, PyNone),
              BrandButtons(PyNone, PyNone),
              PyNone, PyNone,
              PyList(<<PyStr(screenshot_url)>>))

\* mutant: the null entries are kept
VisionPalette_Unfiltered(colors_data) ==
    LET entry(key) == IF HasKey(colors_data, key)
                      THEN <<Lookup(colors_data, key)>> ELSE <<>>
    IN PyList(entry("primary") \o entry("secondary") \o entry("accent")
              \o entry("background") \o entry("text"))

\* palette=[c for c in [primary, secondary, accent, background, text] if c]
VisionPalette(colors_data) ==
    PyList(SelectSeq(<<Get(colors_data, "primary", PyNone),
                       Get(colors_data, "secondary", PyNone),
                       Get(colors_data, "accent", PyNone),
                       Get(colors_data, "background", PyNone),
                       Get(colors_data, "text", PyNone)>>,
                     Truthy))

\* colors_data = data.get("colors", {}); colors = BrandColors(...)
VisionColors(data, isStrict) ==
    LET colors_data == Get(data, "colors", EmptyDict) IN
    IF ~IsDict(colors_data) THEN Raised("AttributeError")
    ELSE LET colors == BrandColors(
                 Get(colors_data, "primary", PyStr("#000000")),
                 Get(colors_data, "secondary", PyNone),
                 Get(colors_data, "accent", PyNone),
                 Get(colors_data, "background", PyStr("#ffffff")),
                 Get(colors_data, "text", PyStr("#000000")),
                 VisionPalette(colors_data))
         IN Construct(colors, ValidColors(colors), isStrict)

\* typo_data = data.get("typography", {}); typography = BrandTypography(...)
VisionTypography(data, isStrict) ==
    LET typo_data == Get(data, "typography", EmptyDict) IN
    IF ~IsDict(typo_data) THEN Raised("AttributeError")
    ELSE LET typography == BrandTypography(
                 Get(typo_data, "headings", PyStr("sans-serif")),
                 Get(typo_data, "body", PyStr("sans-serif")),
                 Get(typo_data, "weights", DefaultWeights),
                 DefaultBaseSize)
         IN Construct(typography, ValidTypography(typography), isStrict)

\* mutant: the border is copied whatever the flag
VisionBorder_Always(btn) == Get(btn, "border", PyNone)

\* border=btn.get("border") if btn.get("has_border") else None
VisionBorder(btn) ==
    IF Truthy(Get(btn, "has_border", PyNone)) THEN Get(btn, "border", PyNone)
                                              ELSE PyNone

\* if buttons_data.get("primary"): buttons.primary = ButtonStyle(...)
VisionButtonPrimary(buttons_data, colors, isStrict) ==
    LET btn == Get(buttons_data, "primary", PyNone) IN
    IF ~Truthy(btn) THEN Returned(PyNone)
    ELSE IF ~IsDict(btn) THEN Raised("AttributeError")
    ELSE LET style == ButtonStyle(
                 Get(btn, "bg", colors.primary),
                 Get(btn, "text", PyStr("#ffffff")),
                 Get(btn, "border_radius", PyStr("4px")),
                 PyStr("12px 24px"),
                 VisionBorder(btn))
         IN Construct(style, ValidButtonStyle(style), isStrict)

\* if buttons_data.get("secondary"): buttons.secondary = ButtonStyle(...)
VisionButtonSecondary(buttons_data, colors, isStrict) ==
    LET btn == Get(buttons_data, "secondary", PyNone) IN
    IF ~Truthy(btn) THEN Returned(PyNone)
    ELSE IF ~IsDict(btn) THEN Raised("AttributeError")
    ELSE LET style == ButtonStyle(
                 Get(btn, "bg", PyStr("transparent")),
                 Get(btn, "text", colors.primary),
                 Get(btn, "border_radius", PyStr("4px")),
                 PyStr("12px 24px"),
                 VisionBorder(btn))
         IN Construct(style, ValidButtonStyle(style), isStrict)

\* buttons = BrandButtons(); buttons_data = data.get("buttons", {}); ...
VisionButtons(data, colors, isStrict) ==
    LET buttons_data == Get(data, "buttons", EmptyDict) IN
    IF ~IsDict(buttons_data) THEN Raised("AttributeError")
    ELSE LET primary == VisionButtonPrimary(buttons_data, colors, isStrict) IN
         IF primary.status = "raised" THEN primary
         ELSE LET secondary == VisionButtonSecondary(buttons_data, colors, isStrict) IN
              IF secondary.status = "raised" THEN secondary
              ELSE Returned(BrandButtons(primary.value, secondary.value))

\* lines 144-207: json.loads of the candidate text, and the mapping of the data
parse_candidate(text, source_url, screenshot_url, isStrict) ==
    LET loaded == json_loads(Strip(text)) IN
    IF loaded.status = "raised"
    THEN Returned(default_brand_data(source_url, screenshot_url))
    ELSE
    LET data == loaded.value IN
    IF ~IsDict(data) THEN Raised("AttributeError")
    ELSE
    LET colors == VisionColors(data, isStrict) IN
    IF colors.status = "raised" THEN colors
    ELSE
    LET typography == VisionTypography(data, isStrict) IN
    IF typography.status = "raised" THEN typography
    ELSE
    LET buttons == VisionButtons(data, colors.value, isStrict) IN
    IF buttons.status = "raised" THEN buttons
    ELSE
    LET screenshots == PyList(<<PyStr(screenshot_url)>>) IN
    Construct(BrandData(PyStr(source_url), colors.value, typography.value,
                        BrandSpacing(DefaultGrid, PyNone), buttons.value,
                        PyNone, PyNone, screenshots),
              ValidBrandDataFields(PyStr(source_url), PyNone, PyNone,
                                   screenshots),
              isStrict)

parse_response(response_text, source_url, screenshot_url, isStrict) ==
    parse_candidate(StripFence(response_text), source_url, screenshot_url,
                    isStrict)

(***************************************************************************)
(* Construction of the services                                            *)
(***************************************************************************)
EnvNames == {"FIRECRAWL_API_KEY", "ANTHROPIC_API_KEY"}

\* os.getenv(name): None when unset, else the string
getenv(name) == env[name]

NotConstructed ==
    [state |-> "none", param |-> PyNone, api_key |-> PyNone, client |-> FALSE,
     exc |-> ""]

\* mutant: the environment comes before the parameter
service_init_EnvFirst(api_key, name) ==
    LET key == Or(getenv(name), api_key) IN
    IF ~Truthy(key)
    THEN [state |-> "raised", param |-> api_key, api_key |-> key,
          client |-> FALSE, exc |-> "ValueError"]
    ELSE [state |-> "ready", param |-> api_key, api_key |-> key,
          client |-> TRUE, exc |-> ""]

\* __init__ of either service: api_key or os.getenv(name), ValueError when
\* that is falsy, and only then the client
service_init(api_key, name) ==
    LET key == Or(api_key, getenv(name)) IN
    IF ~Truthy(key)
    THEN [state |-> "raised", param |-> api_key, api_key |-> key,
          client |-> FALSE, exc |-> "ValueError"]
    ELSE [state |-> "ready", param |-> api_key, api_key |-> key,
          client |-> TRUE, exc |-> ""]

FirecrawlService_init(api_key) ==
    /\ services.firecrawl.state /= "ready"
    /\ services' = [services EXCEPT
                      !.firecrawl = service_init(api_key, "FIRECRAWL_API_KEY")]
    /\ UNCHANGED <<env, strict, calls>>

VisionService_init(api_key) ==
    /\ services.vision.state /= "ready"
    /\ services' = [services EXCEPT
                      !.vision = service_init(api_key, "ANTHROPIC_API_KEY")]
    /\ UNCHANGED <<env, strict, calls>>

(***************************************************************************)
(* Invocations.  A call runs to its await (the request is sent), and       *)
(* resumes when the response arrives; calls of other tasks run in between. *)
(***************************************************************************)
Calls == {"c1", "c2"}

Idle ==
    [pc |-> "idle", kind |-> "none", url |-> "", include_screenshots |-> FALSE,
     screenshot_url |-> "", formats |-> <<>>, requests |-> 0,
     response |-> PyNone, outcome |-> NoOutcome]

\* a response of the scrape endpoint, or the failure of the request
HttpResponse(status, body) ==
    [transport |-> "ok", status |-> status, body |-> body]
RequestError == [transport |-> "error", status |-> 0, body |-> PyNone]

\* response.raise_for_status()
raise_for_status(response) ==
    IF response.status >= 200 /\ response.status < 300
    THEN Returned(response.body) ELSE Raised("HTTPStatusError")

\* lines 75-83: the request of extract_brand
extract_brand_request(call, url, include_screenshots) ==
    [call EXCEPT !.pc = "awaiting", !.kind = "extract_brand", !.url = url,
                 !.include_screenshots = include_screenshots,
                 !.formats = IF include_screenshots
                             THEN <<"branding", "screenshot">>
                             ELSE <<"branding">>,
                 !.requests = call.requests + 1]

\* mutant: a failed request is sent again
extract_brand_resume_Retry(call, response, isStrict) ==
    IF response.transport = "error" \/ raise_for_status(response).status = "raised"
    THEN [call EXCEPT !.requests = call.requests + 1]
    ELSE [call EXCEPT !.pc = "done", !.response = response,
                      !.outcome = extract_brand_mapping(
                                      call.url, call.include_screenshots,
                                      raise_for_status(response).value, isStrict)]

\* lines 83-160: extract_brand from the outcome of client.post on
extract_brand_resume(call, response, isStrict) ==
    LET outcome ==
            IF response.transport = "error" THEN Raised("RequestError")
            ELSE LET data == raise_for_status(response) IN
                 IF data.status = "raised" THEN data
                 ELSE extract_brand_mapping(call.url, call.include_screenshots,
                                            data.value, isStrict)
    IN [call EXCEPT !.pc = "done", !.response = response, !.outcome = outcome]

\* lines 49-72: the request of analyze_brand
analyze_brand_request(call, screenshot_url, source_url) ==
    [call EXCEPT !.pc = "awaiting", !.kind = "analyze_brand",
                 !.url = source_url, !.screenshot_url = screenshot_url,
                 !.requests = call.requests + 1]

\* a completion of the model (its text), or the failure of the request
Completion(text) == [transport |-> "ok", status |-> 200, body |-> text]

\* mutant: the urls are read from a place every call writes (here, what the
\* first call left there)
analyze_brand_resume_Shared(call, response, isStrict) ==
    LET outcome ==
            IF response.transport = "error" THEN Raised("APIError")
            ELSE parse_response(response.body, calls["c1"].url,
                                calls["c1"].screenshot_url, isStrict)
    IN [call EXCEPT !.pc = "done", !.response = response, !.outcome = outcome]

\* lines 51-74: analyze_brand from the outcome of messages.create on
analyze_brand_resume(call, response, isStrict) ==
    LET outcome ==
            IF response.transport = "error" THEN Raised("APIError")
            ELSE parse_response(response.body, call.url, call.screenshot_url,
                                isStrict)
    IN [call EXCEPT !.pc = "done", !.response = response, !.outcome = outcome]

extract_brand_call(c, url, include_screenshots) ==
    /\ services.firecrawl.state = "ready"
    /\ calls[c].pc = "idle"
    /\ calls' = [calls EXCEPT
                   ![c] = extract_brand_request(calls[c], url, include_screenshots)]
    /\ UNCHANGED <<env, strict, services>>

\* the response is one of `responses`
extract_brand_response(c, responses) ==
    /\ calls[c].pc = "awaiting"
    /\ calls[c].kind = "extract_brand"
    /\ \E response \in responses :
          calls' = [calls EXCEPT
                      ![c] = extract_brand_resume(calls[c], response, strict)]
    /\ UNCHANGED <<env, strict, services>>

analyze_brand_call(c, screenshot_url, source_url) ==
    /\ services.vision.state = "ready"
    /\ calls[c].pc = "idle"
    /\ calls' = [calls EXCEPT
                   ![c] = analyze_brand_request(calls[c], screenshot_url, source_url)]
    /\ UNCHANGED <<env, strict, services>>

\* the response is one of `responses`
analyze_brand_response(c, responses) ==
    /\ calls[c].pc = "awaiting"
    /\ calls[c].kind = "analyze_brand"
    /\ \E response \in responses :
          calls' = [calls EXCEPT
                      ![c] = analyze_brand_resume(calls[c], response, strict)]
    /\ UNCHANGED <<env, strict, services>>

(***************************************************************************)
(* Inputs                                                                  *)
(***************************************************************************)
\* the longest `colors` mapping of a scrape payload
MaxColors == 2
\* the most lines of a completion text
MaxLines == 4

Urls == {"https://a.example", "https://b.example"}
ScreenshotUrls == {"https://shots.example/a.png"}
ApiKeyParams == {PyNone, PyStr(""), PyStr("test-key")}
EnvValues == {PyNone, PyStr(""), PyStr("env-key")}

\* a key a mapping does not have
Absent == [k |-> "absent"]

\* the dict of the pairs whose value is not Absent, in their order
DictOf(pairs) == PyDict(SelectSeq(pairs, LAMBDA p : p[2] /= Absent))

NonDicts == {PyNone, PyStr("oops"), PyList(<<PyStr("oops")>>), PyInt(7)}

Hex(key) ==
    CASE key = "primary" -> PyStr("#111111")
      [] key = "secondary" -> PyStr("#222222")
      [] key = "accent" -> PyStr("#333333")
      [] key = "background" -> PyStr("#fafafa")
      [] key = "text" -> PyStr("#444444")
      [] key = "textPrimary" -> PyStr("#444444")
      [] OTHER -> PyStr("#555555")

\* ---- scrape payloads ----
FirecrawlColorKeys == {"primary", "secondary", "textPrimary"}

\* every mapping of at most MaxColors of the keys, in every insertion order,
\* each value a color or null
FirecrawlColorDicts ==
    UNION {{PyDict([i \in 1..n |->
                      <<ks[i], IF nulls[i] THEN PyNone ELSE Hex(ks[i])>>]) :
              ks \in {q \in [1..n -> FirecrawlColorKeys] :
                        \A i, j \in 1..n : i /= j => q[i] /= q[j]},
              nulls \in [1..n -> BOOLEAN]} :
           n \in 0..MaxColors}

FirecrawlColors_in == {Absent} \cup NonDicts \cup FirecrawlColorDicts

FirecrawlTypography_in ==
    {Absent} \cup NonDicts
    \cup {DictOf(<<<<"fontFamilies", ff>>, <<"fontWeights", fw>>, <<"fontSizes", fs>>>>) :
            ff \in {Absent, PyNone, EmptyDict,
                    DictOf(<<<<"primary", PyStr("Inter")>>>>),
                    DictOf(<<<<"heading", PyStr("Mabry")>>>>),
                    DictOf(<<<<"heading", PyStr("Mabry")>>, <<"primary", PyStr("Inter")>>>>)},
            fw \in {Absent, PyNone, EmptyDict,
                    DictOf(<<<<"bold", PyInt(700)>>, <<"regular", PyInt(400)>>>>)},
            fs \in {Absent, PyNone, DictOf(<<<<"body", PyStr("18px")>>>>)}}

FirecrawlSpacing_in ==
    {Absent} \cup NonDicts
    \cup {DictOf(<<<<"baseUnit", bu>>, <<"borderRadius", br>>>>) :
            bu \in {Absent, PyNone, PyInt(4), PyInt(16), PyStr("10")},
            br \in {Absent, PyNone, PyStr(""), PyStr("6px"), PyInt(6)}}

FirecrawlButton_in ==
    {Absent, PyNone, EmptyDict, PyStr("oops"),
     DictOf(<<<<"background", PyStr("#aa0000")>>>>),
     DictOf(<<<<"textColor", PyStr("#00aa00")>>, <<"borderRadius", PyStr("8px")>>,
              <<"borderColor", PyStr("#0000aa")>>>>),
     DictOf(<<<<"background", PyNone>>>>)}

FirecrawlComponents_in ==
    {Absent} \cup NonDicts
    \cup {DictOf(<<<<"buttonPrimary", bp>>, <<"buttonSecondary", bs>>>>) :
            bp \in FirecrawlButton_in, bs \in FirecrawlButton_in}

FirecrawlImages_in ==
    {Absent} \cup NonDicts
    \cup {DictOf(<<<<"logo", lg>>, <<"favicon", fv>>>>) :
            lg \in {Absent, PyNone, PyStr(""), PyStr("https://a.example/logo.png")},
            fv \in {Absent, PyNone, PyStr("https://a.example/favicon.ico")}}

Branding(colors, typography, spacing, components, images, logo, favicon) ==
    DictOf(<<<<"colors", colors>>, <<"typography", typography>>,
             <<"spacing", spacing>>, <<"components", components>>,
             <<"images", images>>, <<"logo", logo>>, <<"favicon", favicon>>>>)

\* brandings that vary one section at a time (buttons with and without a
\* primary color; images with and without the top-level logo and favicon)
Brandings ==
    {Branding(c, Absent, Absent, Absent, Absent, Absent, Absent) :
       c \in FirecrawlColors_in}
    \cup {Branding(Absent, t, Absent, Absent, Absent, Absent, Absent) :
            t \in FirecrawlTypography_in}
    \cup {Branding(Absent, Absent, sp, Absent, Absent, Absent, Absent) :
            sp \in FirecrawlSpacing_in}
    \cup {Branding(c, Absent, Absent, cm, Absent, Absent, Absent) :
            c \in {Absent, DictOf(<<<<"primary", Hex("primary")>>>>)},
            cm \in FirecrawlComponents_in}
    \cup {Branding(Absent, Absent, Absent, Absent, im, lg, fv) :
            im \in FirecrawlImages_in,
            lg \in {Absent, PyStr("https://a.example/top-logo.png")},
            fv \in {Absent, PyStr("https://a.example/top-favicon.ico")}}

Payload(branding, screenshot) ==
    DictOf(<<<<"data", DictOf(<<<<"branding", branding>>,
                                <<"screenshot", screenshot>>>>)>>>>)

Payloads ==
    NonDicts \cup {EmptyDict} \cup {DictOf(<<<<"data", d>>>>) : d \in NonDicts}
    \cup {Payload(b, Absent) : b \in Brandings \cup NonDicts}
    \cup {Payload(b, PyStr("https://shots.example/a.png")) :
            b \in {Absent, EmptyDict}}

ScrapeResponses ==
    {RequestError}
    \cup {HttpResponse(st, PyNone) : st \in {404, 500}}
    \cup {HttpResponse(200, p) : p \in Payloads}

\* the few responses the concurrent specification draws from
CoreScrapeResponses ==
    {RequestError, HttpResponse(500, PyNone),
     HttpResponse(200, Payload(EmptyDict, PyStr("https://shots.example/a.png"))),
     HttpResponse(200, Payload(Branding(DictOf(<<<<"primary", Hex("primary")>>>>),
                                        Absent, Absent, Absent, Absent, Absent,
                                        Absent), Absent)),
     HttpResponse(200, DictOf(<<<<"data", PyNone>>>>))}

\* ---- completions ----
VisionColorKeys == <<"primary", "secondary", "accent", "background", "text">>

\* every mapping over the five color keys, each absent, null or a color
VisionColorDicts ==
    {DictOf([i \in 1..5 |->
               <<VisionColorKeys[i],
                 CASE f[i] = "absent" -> Absent
                   [] f[i] = "null" -> PyNone
                   [] f[i] = "hex" -> Hex(VisionColorKeys[i])>>]) :
       f \in [1..5 -> {"absent", "null", "hex"}]}

VisionColors_in == {Absent} \cup NonDicts \cup VisionColorDicts

VisionTypography_in ==
    {Absent} \cup NonDicts
    \cup {DictOf(<<<<"headings", h>>, <<"body", b>>, <<"weights", w>>>>) :
            h \in {Absent, PyNone, PyStr("Mabry")},
            b \in {Absent, PyStr("Circular")},
            w \in {Absent, PyNone, PyList(<<PyInt(400)>>)}}

VisionButton_in ==
    {Absent, PyNone, EmptyDict, PyStr("oops"),
     DictOf(<<<<"bg", PyStr("#aa0000")>>>>),
     DictOf(<<<<"bg", PyStr("#aa0000")>>, <<"text", PyStr("#00aa00")>>,
              <<"border_radius", PyStr("8px")>>, <<"has_border", PyBool(FALSE)>>>>),
     DictOf(<<<<"has_border", PyBool(TRUE)>>, <<"border", PyStr("1px solid #000")>>>>),
     DictOf(<<<<"has_border", PyBool(FALSE)>>, <<"border", PyStr("1px solid #000")>>>>),
     DictOf(<<<<"border", PyStr("1px solid #000")>>>>),
     DictOf(<<<<"has_border", PyBool(TRUE)>>>>),
     DictOf(<<<<"has_border", PyNone>>, <<"border", PyStr("1px solid #000")>>>>),
     DictOf(<<<<"bg", PyNone>>>>)}

VisionButtons_in ==
    {Absent} \cup NonDicts
    \cup {DictOf(<<<<"primary", bp>>, <<"secondary", bs>>>>) :
            bp \in VisionButton_in, bs \in VisionButton_in}

VisionDoc(colors, typography, buttons) ==
    DictOf(<<<<"colors", colors>>, <<"typography", typography>>,
             <<"buttons", buttons>>>>)

\* JSON documents that vary one section at a time (buttons with and without
\* a primary color), and documents that are no object
VisionDocs ==
    NonDicts
    \cup {VisionDoc(c, Absent, Absent) : c \in VisionColors_in}
    \cup {VisionDoc(Absent, t, Absent) : t \in VisionTypography_in}
    \cup {VisionDoc(c, Absent, b) :
            c \in {Absent, DictOf(<<<<"primary", Hex("primary")>>>>)},
            b \in VisionButtons_in}

\* the document of the fenced texts
FencedDoc ==
    VisionDoc(DictOf(<<<<"primary", PyStr("#FF90E8")>>,
                       <<"background", PyStr("#FFFFFF")>>>>),
              DictOf(<<<<"headings", PyStr("Mabry")>>>>), EmptyDict)

\* the lines a text is made of: fences (bare, with a language tag, indented),
\* an empty line, prose, a JSON document, and the two lines of a spread {}
TextLines ==
    {Fence, Fence \o <<Ch("j")>>, <<SP>> \o Fence, <<>>, <<Ch("x")>>,
     <<Json(FencedDoc)>>, <<Ch("{")>>, <<Ch("}")>>}

\* every text of at most MaxLines of these lines
LinedTexts ==
    UNION {{Join(ls) : ls \in [1..n -> TextLines]} : n \in 0..MaxLines}

Texts == LinedTexts \cup {<<Json(v)>> : v \in VisionDocs}

Completions == {RequestError} \cup {Completion(t) : t \in Texts}

\* the few completions the concurrent specification draws from
CoreCompletions ==
    {RequestError, Completion(<<Ch("x")>>),
     Completion(Join(<<Fence \o <<Ch("j")>>, <<Json(FencedDoc)>>, Fence>>)),
     Completion(<<Json(PyList(<<>>))>>)}

(***************************************************************************)
(* Specifications                                                          *)
(***************************************************************************)
Init ==
    /\ env \in [EnvNames -> EnvValues]
    /\ strict \in BOOLEAN
    /\ services = [firecrawl |-> NotConstructed, vision |-> NotConstructed]
    /\ calls = [c \in Calls |-> Idle]

\* concurrent calls by the tasks of one caller, on services it constructs
Next ==
    \/ \E api_key \in ApiKeyParams : FirecrawlService_init(api_key)
    \/ \E api_key \in ApiKeyParams : VisionService_init(api_key)
    \/ \E c \in Calls, url \in Urls, inc \in BOOLEAN :
          extract_brand_call(c, url, inc)
    \/ \E c \in Calls : extract_brand_response(c, CoreScrapeResponses)
    \/ \E c \in Calls, shot \in ScreenshotUrls, url \in Urls :
          analyze_brand_call(c, shot, url)
    \/ \E c \in Calls : analyze_brand_response(c, CoreCompletions)

Spec == Init /\ [][Next]_vars

\* both services constructed with a key, no call made yet
InitReady ==
    /\ env = [n \in EnvNames |-> PyNone]
    /\ strict \in BOOLEAN
    /\ services = [firecrawl |-> service_init(PyStr("test-key"), "FIRECRAWL_API_KEY"),
                   vision |-> service_init(PyStr("test-key"), "ANTHROPIC_API_KEY")]
    /\ calls = [c \in Calls |-> Idle]

\* one extract_brand call, over every payload
NextExtract ==
    \/ \E inc \in BOOLEAN : extract_brand_call("c1", "https://a.example", inc)
    \/ extract_brand_response("c1", ScrapeResponses)

SpecExtract == InitReady /\ [][NextExtract]_vars

\* one analyze_brand call, over every completion
NextAnalyze ==
    \/ \E shot \in ScreenshotUrls : analyze_brand_call("c1", shot, "https://a.example")
    \/ analyze_brand_response("c1", Completions)

SpecAnalyze == InitReady /\ [][NextAnalyze]_vars

(***************************************************************************)
(* Properties                                                              *)
(***************************************************************************)
DoneCalls(kind) == {c \in Calls : calls[c].pc = "done" /\ calls[c].kind = kind}

\* the request of the call was answered, with a 2xx status
Answered(call) ==
    /\ call.response.transport = "ok"
    /\ call.response.status >= 200 /\ call.response.status < 300

\* C1: whatever text the model completes with, analyze_brand returns a valid
\* BrandData and does not raise.
C1_AnalyzeNeverRaises ==
    \A c \in DoneCalls("analyze_brand") :
        Answered(calls[c]) =>
            /\ calls[c].outcome.status = "returned"
            /\ ValidBrandData(calls[c].outcome.value)

\* C2: whatever the payload of a 2xx scrape response lacks or holds in place
\* of a sub-field, extract_brand returns a valid BrandData and does not raise.
C2_ExtractNeverRaises ==
    \A c \in DoneCalls("extract_brand") :
        Answered(calls[c]) =>
            /\ calls[c].outcome.status = "returned"
            /\ ValidBrandData(calls[c].outcome.value)

\* the candidate text of the completion does not parse as JSON
NotJson(call) ==
    json_loads(Strip(StripFence(call.response.body))).status = "raised"

\* C3: a completion that is not JSON after fence stripping gives exactly the
\* default object: primary #000000, sans-serif fonts, no buttons, default
\* spacing, screenshots = [screenshot_url], url = source_url; nothing of the
\* text is salvaged.
C3_NonJsonGivesDefault ==
    \A c \in DoneCalls("analyze_brand") :
        (Answered(calls[c]) /\ NotJson(calls[c])) =>
            /\ calls[c].outcome.status = "returned"
            /\ calls[c].outcome.value =
                 [k |-> "BrandData",
                  url |-> PyStr(calls[c].url),
                  colors |-> [k |-> "BrandColors", primary |-> PyStr("#000000"),
                              secondary |-> PyNone, accent |-> PyNone,
                              background |-> PyNone, text |-> PyNone,
                              palette |-> PyList(<<>>)],
                  typography |-> [k |-> "BrandTypography",
                                  headings |-> PyStr("sans-serif"),
                                  body |-> PyStr("sans-serif"),
                                  weights |-> DefaultWeights,
                                  base_size |-> DefaultBaseSize],
                  spacing |-> [k |-> "BrandSpacing", grid |-> DefaultGrid,
                               gap |-> PyNone],
                  buttons |-> [k |-> "BrandButtons", primary |-> PyNone,
                               secondary |-> PyNone],
                  logo_url |-> PyNone, favicon_url |-> PyNone,
                  screenshots |-> PyList(<<PyStr(calls[c].screenshot_url)>>)]

\* a call returned the default object for a text that holds a JSON document
\* among other lines
C3_Witness ==
    \E c \in DoneCalls("analyze_brand") :
        /\ Answered(calls[c]) /\ NotJson(calls[c])
        /\ \E i \in 1..Len(calls[c].response.body) :
              calls[c].response.body[i].ch = "json"
        /\ calls[c].outcome.status = "returned"
        /\ calls[c].outcome.value.colors.primary = PyStr("#000000")

\* the lines between the opening and the closing line of a text
Inner(lines) == Join(SubSeq(lines, 2, Len(lines) - 1))

\* the text is a JSON text wrapped in a fenced code block: an opening line of
\* three backticks and an optional language tag, the JSON text, and a closing
\* line of three backticks
IsFenced(text) ==
    LET lines == Split(text) IN
    /\ Len(lines) >= 3
    /\ lines[1] \in {Fence, Fence \o <<Ch("j")>>}
    /\ lines[Len(lines)] = Fence
    /\ json_loads(Inner(lines)).status = "returned"

\* C4: a JSON text wrapped in a fenced code block parses to what the JSON
\* text itself parses to; a text that opens with a fence and whose final line
\* is no closing fence loses its first line only.
C4_FenceIsTransparent ==
    \A c \in DoneCalls("analyze_brand") :
        LET call == calls[c]
            text == call.response.body
            lines == Split(Strip(text))
        IN Answered(call) =>
            /\ IsFenced(text) =>
                 call.outcome = parse_response(Inner(Split(text)), call.url,
                                               call.screenshot_url, strict)
            /\ (StartsWith(Strip(text), Fence)
                  /\ Strip(lines[Len(lines)]) /= Fence) =>
                 call.outcome = parse_candidate(Join(Tail(lines)), call.url,
                                                call.screenshot_url, strict)

\* a call parsed the document inside a tagged fence
C4_Witness ==
    \E c \in DoneCalls("analyze_brand") :
        /\ Answered(calls[c])
        /\ calls[c].response.body =
             Join(<<Fence \o <<Ch("j")>>, <<Json(FencedDoc)>>, Fence>>)
        /\ calls[c].outcome.status = "returned"
        /\ calls[c].outcome.value.colors.primary = PyStr("#FF90E8")
        /\ calls[c].outcome.value.typography.headings = PyStr("Mabry")

EnvVar(service) ==
    IF service = "firecrawl" THEN "FIRECRAWL_API_KEY" ELSE "ANTHROPIC_API_KEY"

ServiceOf(kind) == IF kind = "extract_brand" THEN "firecrawl" ELSE "vision"

\* C5, as claimed: with no parameter and the variable unset the constructor
\* raises ValueError before a client exists; a supplied parameter or
\* environment value makes it succeed with api_key equal to that value.
C5_AnySuppliedValueConstructs ==
    \A s \in {"firecrawl", "vision"} :
        LET svc == services[s]
            e == env[EnvVar(s)]
        IN svc.state /= "none" =>
            /\ (svc.param = PyNone /\ e = PyNone) =>
                 (svc.state = "raised" /\ svc.exc = "ValueError" /\ ~svc.client)
            /\ (svc.param /= PyNone \/ e /= PyNone) =>
                 (svc.state = "ready" /\ svc.api_key \in {svc.param, e})

\* C5, amended: a non-empty parameter constructs with api_key equal to it;
\* else a non-empty environment value constructs with api_key equal to it;
\* else (both absent or empty) the constructor raises ValueError before a
\* client exists.  No call starts on a service that is not constructed, and
\* no call raises ValueError.
C5_Construction ==
    /\ \A s \in {"firecrawl", "vision"} :
          LET svc == services[s]
              e == env[EnvVar(s)]
          IN svc.state /= "none" =>
               IF svc.param \notin {PyNone, PyStr("")}
               THEN svc.state = "ready" /\ svc.client /\ svc.api_key = svc.param
               ELSE IF e \notin {PyNone, PyStr("")}
               THEN svc.state = "ready" /\ svc.client /\ svc.api_key = e
               ELSE svc.state = "raised" /\ svc.exc = "ValueError" /\ ~svc.client
    /\ \A c \in Calls :
          /\ calls[c].outcome.exc /= "ValueError"
          /\ calls[c].pc /= "idle" =>
               services[ServiceOf(calls[c].kind)].state = "ready"

\* one constructor raised for an empty parameter, the other took the
\* environment's key, and a call on it has finished
C5_Witness ==
    /\ services.firecrawl.state = "raised"
    /\ services.firecrawl.param = PyStr("")
    /\ services.vision.state = "ready"
    /\ services.vision.param = PyNone
    /\ services.vision.api_key = PyStr("env-key")
    /\ \E c \in Calls : calls[c].pc = "done"

\* the request of the call failed: a request exception or a non-2xx status
Failed(call) == ~Answered(call)

\* C6: a call issues exactly one request; when the request fails the failure
\* is raised to the caller, no BrandData is returned and no request follows.
C6_OneRequestNoRetry ==
    \A c \in Calls :
        /\ calls[c].pc = "idle" => calls[c].requests = 0
        /\ calls[c].pc \in {"awaiting", "done"} => calls[c].requests = 1
        /\ (calls[c].pc = "done" /\ Failed(calls[c])) =>
              /\ calls[c].outcome.status = "raised"
              /\ calls[c].outcome.value = PyNone
              /\ calls[c].outcome.exc =
                   IF calls[c].response.transport = "ok" THEN "HTTPStatusError"
                   ELSE IF calls[c].kind = "extract_brand" THEN "RequestError"
                   ELSE "APIError"

\* one call ended on a 500 response and another on a request exception
C6_Witness ==
    \E c, d \in Calls :
        /\ calls[c].pc = "done" /\ calls[c].response.status = 500
        /\ calls[c].outcome.exc = "HTTPStatusError"
        /\ calls[d].pc = "done" /\ calls[d].response.transport = "error"
        /\ calls[d].outcome.status = "raised"

\* the outcome the call's own arguments and own response determine
OwnOutcome(call) ==
    IF Failed(call) THEN call.outcome
    ELSE IF call.kind = "extract_brand"
    THEN extract_brand_mapping(call.url, call.include_screenshots,
                               call.response.body, strict)
    ELSE parse_response(call.response.body, call.url, call.screenshot_url,
                        strict)

BrandingOf(call) ==
    Get(Get(call.response.body, "data", EmptyDict), "branding", EmptyDict)

\* the key is there and its value is not null, empty or zero
Present(d, key) == Truthy(Get(d, key, PyNone))

\* C8: logo_url is images.logo when present, else the top-level logo;
\* favicon_url is images.favicon when present, else the top-level favicon;
\* each is absent only when both of its sources are.
C8_LogoFaviconFallback ==
    \A c \in DoneCalls("extract_brand") :
        calls[c].outcome.status = "returned" =>
            LET branding == BrandingOf(calls[c])
                images == Get(branding, "images", EmptyDict)
                result == calls[c].outcome.value
            IN /\ result.logo_url =
                    IF Present(images, "logo") THEN Lookup(images, "logo")
                    ELSE Get(branding, "logo", PyNone)
               /\ result.favicon_url =
                    IF Present(images, "favicon") THEN Lookup(images, "favicon")
                    ELSE Get(branding, "favicon", PyNone)

\* the vendor component object is there (with or without fields)
HasComponent(components, key) ==
    HasKey(components, key) /\ IsDict(Lookup(components, key))

\* C9: a button slot is a ButtonStyle exactly when the vendor component
\* object is present, also when it has no fields; the primary defaults bg to
\* colors.primary, text to #ffffff, border_radius to 4px, has padding
\* 12px 24px and no border; the secondary defaults bg to transparent, text to
\* colors.primary and takes border from borderColor.
C9_ButtonSlots ==
    \A c \in DoneCalls("extract_brand") :
        calls[c].outcome.status = "returned" =>
            LET components == Get(BrandingOf(calls[c]), "components", EmptyDict)
                result == calls[c].outcome.value
                bp == Get(components, "buttonPrimary", PyNone)
                bs == Get(components, "buttonSecondary", PyNone)
            IN /\ IF HasComponent(components, "buttonPrimary")
                  THEN result.buttons.primary =
                         [k |-> "ButtonStyle",
                          bg |-> Get(bp, "background", result.colors.primary),
                          text |-> Get(bp, "textColor", PyStr("#ffffff")),
                          border_radius |-> Get(bp, "borderRadius", PyStr("4px")),
                          padding |-> PyStr("12px 24px"),
                          border |-> PyNone]
                  ELSE result.buttons.primary = PyNone
               /\ IF HasComponent(components, "buttonSecondary")
                  THEN result.buttons.secondary =
                         [k |-> "ButtonStyle",
                          bg |-> Get(bs, "background", PyStr("transparent")),
                          text |-> Get(bs, "textColor", result.colors.primary),
                          border_radius |-> Get(bs, "borderRadius", PyStr("4px")),
                          padding |-> PyStr("12px 24px"),
                          border |-> Get(bs, "borderColor", PyNone)]
                  ELSE result.buttons.secondary = PyNone

\* the response carries a `colors` mapping and nothing else in its branding
OnlyColors(call) ==
    /\ Answered(call)
    /\ IsDict(call.response.body)
    /\ IsDict(Get(call.response.body, "data", EmptyDict))
    /\ IsDict(BrandingOf(call))
    /\ Len(BrandingOf(call).items) = 1
    /\ HasKey(BrandingOf(call), "colors")
    /\ IsDict(Lookup(BrandingOf(call), "colors"))

\* C10: palette is the sequence of the color values present in the vendor's
\* `colors` mapping, in insertion order, without null entries.
C10_PaletteOfPresentColors ==
    \A c \in DoneCalls("extract_brand") :
        (OnlyColors(calls[c])
           /\ IsStr(Get(Lookup(BrandingOf(calls[c]), "colors"), "primary",
                        PyStr("#000000")))) =>
            /\ calls[c].outcome.status = "returned"
            /\ calls[c].outcome.value.colors.palette =
                 PyList(SelectSeq(Values(Lookup(BrandingOf(calls[c]), "colors")),
                                  LAMBDA v : ~IsNone(v)))

\* the `colors` mapping of the document an answered analyze_brand call parsed
ColorsOf(call) ==
    Get(json_loads(Strip(StripFence(call.response.body))).value, "colors",
        EmptyDict)

\* the call parsed a JSON document and returned a BrandData made from it
ParsedAndReturned(call) ==
    /\ Answered(call)
    /\ ~NotJson(call)
    /\ call.outcome.status = "returned"

\* C11, as claimed: after a successful parse palette is the sequence
\* [primary, secondary, accent, background, text] of the mapped color values
\* of the result without the absent ones, so a field that took its default
\* is in palette too.
C11_PaletteOfResultColors ==
    \A c \in DoneCalls("analyze_brand") :
        ParsedAndReturned(calls[c]) =>
            LET colors == calls[c].outcome.value.colors IN
            colors.palette =
                PyList(SelectSeq(<<colors.primary, colors.secondary,
                                   colors.accent, colors.background,
                                   colors.text>>,
                                 LAMBDA v : ~IsNone(v)))

\* C11, amended: after a successful parse palette is the sequence of the
\* values the document itself gives for primary, secondary, accent,
\* background and text, in that fixed order, without the absent, null or
\* empty ones; a field that took its default is not in palette.
C11_PaletteOfSuppliedColors ==
    \A c \in DoneCalls("analyze_brand") :
        ParsedAndReturned(calls[c]) =>
            LET supplied == ColorsOf(calls[c])
                given(key) == IF HasKey(supplied, key) /\ Truthy(Lookup(supplied, key))
                              THEN <<Lookup(supplied, key)>> ELSE <<>>
            IN calls[c].outcome.value.colors.palette =
                 PyList(given("primary") \o given("secondary") \o given("accent")
                        \o given("background") \o given("text"))

\* a call returned primary and text by default and a palette of the two
\* colors its document gave, accent before background
C11_Witness ==
    \E c \in DoneCalls("analyze_brand") :
        /\ ParsedAndReturned(calls[c])
        /\ ~HasKey(ColorsOf(calls[c]), "primary")
        /\ calls[c].outcome.value.colors.primary = PyStr("#000000")
        /\ calls[c].outcome.value.colors.text = PyStr("#000000")
        /\ calls[c].outcome.value.colors.palette =
             PyList(<<Hex("accent"), Hex("background")>>)

\* the `buttons` mapping of the document an answered analyze_brand call parsed
ButtonsOf(call) ==
    Get(json_loads(Strip(StripFence(call.response.body))).value, "buttons",
        EmptyDict)

\* the has_border flag of the sub-object is the boolean true
FlagIsTrue(btn) == Get(btn, "has_border", PyBool(FALSE)) = PyBool(TRUE)

\* the has_border flag of the sub-object is the boolean false, or missing
FlagIsFalseOrMissing(btn) == Get(btn, "has_border", PyBool(FALSE)) = PyBool(FALSE)

\* what C12 says of the ButtonStyle `style` built from the sub-object `btn`
BorderFollowsFlag(style, btn) ==
    /\ style.padding = PyStr("12px 24px")
    /\ FlagIsTrue(btn) => style.border = Get(btn, "border", PyNone)
    /\ FlagIsFalseOrMissing(btn) => style.border = PyNone
    /\ style.border /= PyNone => FlagIsTrue(btn)

====
